---- MODULE Spec2Model ----
(***************************************************************************)
(* Model of linkerd2-proxy.                                                *)
(*  - linkerd/http/prom/src/record_response.rs: the RecordResponse service *)
(*    (request-duration and response-duration flavours), its               *)
(*    ResponseFuture, the RequestBody and ResponseBody wrappers, the       *)
(*    one-shot start channel and end_stream (Spec, ConcSpec).              *)
(*  - outbound client policy as exercised by                               *)
(*    linkerd/app/integration/src/tests/client_policy.rs: rule matching    *)
(*    (RouteSpec), FirstAvailable (DistSpec), protocol detection           *)
(*    (DetectSpec, DetectFairSpec).                                        *)
(*  - linkerd/app/outbound/src/policy.rs: the policy watch (WatchSpec).    *)
(*  - linkerd2-proxy/src/main.rs: shutdown of the main task (AppSpec,      *)
(*    AppFairSpec).                                                        *)
(***************************************************************************)
EXTENDS Integers, Sequences, FiniteSets, Bags, TLC

\* ---------------------------------------------------------------- bounds
MaxTime == 2
MaxFrames == 1

\* ------------------------------------------------------------ value sets
Reqs == {"r1"}
Modes == {"RequestDuration", "ResponseDuration"}
Errors == {"io", "reset"}
Statuses == {"200", "503"}
TrailerMaps == {"t1"}

NoState == [some |-> FALSE, labeler |-> "-"]
NoLabeler == "None"
NoVal == -1
Nil == <<"-", "-", FALSE>>
Pending == <<"Pending", "-">>
RequestCancelled == "RequestCancelled"
NoEnd == <<"-", "-">>
NoTerm == [op |-> "-", res |-> <<"-", "-">>, eos |-> FALSE, at |-> NoVal]

\* Poll<Result<Option<HeaderMap>, Error>> of a body's poll_trailers, when ready
TrailerResults == {<<"Ok", "None">>} \cup {<<"Ok", t>> : t \in TrailerMaps}
                    \cup {<<"Err", e>> : e \in Errors}

VARIABLES
    mode,       \* which service flavour is built: RecordRequestDuration / RecordResponseDuration
    now,        \* time::Instant::now()
    family,     \* DurationFamily: bag of <<label set, elapsed>> observations
    fut,        \* ResponseFuture: "idle" (not called), "pending", "ready", "dropped"
    state,      \* the Option<ResponseState> slot of the live ResponseFuture / ResponseBody
    chan,       \* the oneshot channel (tx, start)
    qb,         \* the request body handed to the inner service
    rb,         \* the response body returned to the caller
    futIn,      \* what the inner future's poll produced last
    futOut,     \* what ResponseFuture::poll returned last
    rspSame,    \* history: the ResponseBody wrapper returned what the inner body produced
    reqSame,    \* history: the RequestBody wrapper returned what the inner body produced
    recorded,   \* history: mk_stream_labeler returned Some
    arrivedAt,  \* history: instant of call
    flushedAt,  \* history: instant the request body was flushed
    headersAt,  \* history: instant the response head was received
    initLog,    \* history: number of init_response invocations
    endLog,     \* history: the end_response invocations and their observations
    events,     \* history: what the caller has seen through the response body
    term,       \* history: the first poll of the response body that ended the stream
    panicked,   \* history: an unwrap in call panicked
    rt,         \* the outbound route resolution of one request: policy, request, outcome
    dist,       \* one backend selection: the FirstAvailable list, the oracle, the outcome
    conn,       \* one connection under protocol detection
    watch,      \* the policy watch channel of one destination and its readers
    app         \* the main task of the proxy: shutdown sources, drain, grace period

vars == <<mode, now, family, fut, state, chan, qb, rb, futIn, futOut, rspSame,
          reqSame, recorded, arrivedAt, flushedAt, headersAt, initLog, endLog,
          events, term, panicked, rt, dist, conn, watch, app>>

\* no route resolution is under way
NoResolution == [phase |-> "idle"]
\* no backend selection is under way
NoSelection == [phase |-> "idle"]
\* no connection is accepted
NoConnection == [state |-> "idle"]
\* no policy watch is set up
NoWatch == [version |-> 0]
\* the proxy is not started
NoApp == [pc |-> "idle"]

\* ------------------------------------------------------- oneshot channel
NoChan == [made |-> FALSE, val |-> NoVal, rx |-> FALSE]

\* a channel whose receiver is already gone
channel_rx_dropped == [made |-> TRUE, val |-> NoVal, rx |-> FALSE]

\* oneshot::channel()
channel == [made |-> TRUE, val |-> NoVal, rx |-> TRUE]

\* the value is stored without looking at the receiver
send_unchecked(ch, t) == [ch EXCEPT !.val = t]

\* oneshot::Sender::send: stores the value unless the receiver is gone
send(ch, t) == IF ch.rx THEN [ch EXCEPT !.val = t] ELSE ch

\* the Result of send: Err when the receiver is gone
send_is_ok(ch) == ch.rx

\* the receiver always reports an error
try_recv_closed(ch) == <<"Err", NoVal>>

\* oneshot::Receiver::try_recv: Ok(value) once a value was sent, Err otherwise
try_recv(ch) == IF ch.val # NoVal THEN <<"Ok", ch.val>> ELSE <<"Err", NoVal>>

\* operands exchanged: start.saturating_duration_since(now)
saturating_duration_swapped(t, start) == IF start >= t THEN start - t ELSE 0

\* Instant::saturating_duration_since
saturating_duration_since(t, start) == IF t >= start THEN t - start ELSE 0

\* ---------------------------------------------------------------- labeler
\* the response head leaves no trace in the labeler
init_response_ignored(labeler, status) == labeler

\* StreamLabel::init_response: the labeler observes the response head
init_response(labeler, status) == status

\* StreamLabel::end_response: the label set from the labeler and the outcome
end_response(labeler, res) == <<labeler, res>>

\* ------------------------------------------------------------- end_stream
\* a missing start is taken as the clock's origin instead of the finalize instant
elapsed_of_epoch(ch, t) ==
    LET start == try_recv(ch)
    IN IF start[1] = "Ok" THEN saturating_duration_since(t, start[2]) ELSE t

\* elapsed as end_stream computes it from the start receiver
elapsed_of(ch, t) ==
    LET start == try_recv(ch)
    IN IF start[1] = "Ok" THEN saturating_duration_since(t, start[2]) ELSE 0

\* the slot is read without being taken
taken_kept(st) == st

\* the slot after end_stream's state.take()
taken(st) == NoState

\* every request takes its elapsed time from the first request's receiver
end_stream_first_start(r, st, res) ==
    IF ~st.some
    THEN /\ state' = [state EXCEPT ![r] = NoState]
         /\ UNCHANGED <<family, chan, endLog>>
    ELSE LET lbl == end_response(st.labeler, res)
             elapsed == elapsed_of(chan["r1"], now)
         IN /\ state' = [state EXCEPT ![r] = taken(st)]
            /\ family' = family (+) SetToBag({<<lbl, elapsed>>})
            /\ chan' = [chan EXCEPT ![r] = [@ EXCEPT !.val = NoVal, !.rx = FALSE]]
            /\ endLog' = [endLog EXCEPT ![r] =
                   Append(@, [res |-> res, lbl |-> lbl, elapsed |-> elapsed, at |-> now])]

\* end_stream(state, res) on a slot holding st
end_stream(r, st, res) ==
    IF ~st.some
    THEN /\ state' = [state EXCEPT ![r] = NoState]
         /\ UNCHANGED <<family, chan, endLog>>
    ELSE LET lbl == end_response(st.labeler, res)
             elapsed == elapsed_of(chan[r], now)
         IN /\ state' = [state EXCEPT ![r] = taken(st)]
            /\ family' = family (+) SetToBag({<<lbl, elapsed>>})
            /\ chan' = [chan EXCEPT ![r] = [@ EXCEPT !.val = NoVal, !.rx = FALSE]]
            /\ endLog' = [endLog EXCEPT ![r] =
                   Append(@, [res |-> res, lbl |-> lbl, elapsed |-> elapsed, at |-> now])]

\* the slot is written back without finalizing
keep_state(r, st) ==
    /\ state' = [state EXCEPT ![r] = st]
    /\ UNCHANGED <<family, chan, endLog>>

\* ------------------------------------------------------------------- Init
NoReqBody == [phase |-> "none", wrapped |-> FALSE, flushed |-> FALSE, eos |-> FALSE, left |-> 0]
NoRspBody == [phase |-> "none", eos |-> FALSE, left |-> 0]

\* the service with no call made yet, for the requests in S
RecordResponse_idle(S) ==
    /\ now = 0
    /\ family = EmptyBag
    /\ fut = [r \in S |-> "idle"]
    /\ state = [r \in S |-> NoState]
    /\ chan = [r \in S |-> NoChan]
    /\ qb = [r \in S |-> NoReqBody]
    /\ rb = [r \in S |-> NoRspBody]
    /\ futIn = [r \in S |-> Nil]
    /\ futOut = [r \in S |-> Nil]
    /\ rspSame = [r \in S |-> TRUE]
    /\ reqSame = [r \in S |-> TRUE]
    /\ recorded = [r \in S |-> FALSE]
    /\ arrivedAt = [r \in S |-> NoVal]
    /\ flushedAt = [r \in S |-> NoVal]
    /\ headersAt = [r \in S |-> NoVal]
    /\ initLog = [r \in S |-> 0]
    /\ endLog = [r \in S |-> <<>>]
    /\ events = [r \in S |-> {}]
    /\ term = [r \in S |-> NoTerm]
    /\ panicked = [r \in S |-> FALSE]

RecordResponse_new == RecordResponse_idle(Reqs)

Init ==
    /\ mode \in Modes
    /\ RecordResponse_new
    /\ rt = NoResolution /\ dist = NoSelection /\ conn = NoConnection
    /\ watch = NoWatch /\ app = NoApp

\* the clock advances
Tick ==
    /\ now < MaxTime
    /\ now' = now + 1
    /\ UNCHANGED <<rt, dist, conn, watch, app, mode, family, fut, state, chan, qb, rb, futIn, futOut, rspSame, reqSame, recorded, arrivedAt, flushedAt, headersAt, initLog,
                   endLog, events, term, panicked>>

\* ------------------------------------------------- the wrapped inner parts
\* the bodies a caller can hand over: k data frames, end-of-stream already
\* reported only by a body without frames
InnerBodies == {[eos |-> e, left |-> k] : e \in BOOLEAN, k \in 0..MaxFrames} \ 
                 {[eos |-> TRUE, left |-> k] : k \in 1..MaxFrames}

\* http_body::Body::poll_data of an inner body b: the <<result, eos, left>> it may
\* produce; eos is what is_end_stream reports afterwards
inner_poll_data(b) ==
    {<<Pending, b.eos, b.left>>}
    \cup {<<<<"Data", "-">>, e, b.left - 1>> :
            e \in {x \in BOOLEAN : ~b.eos /\ b.left > 0 /\ (x => b.left = 1)}}
    \cup {<<<<"None", "-">>, e, 0>> : e \in {x \in BOOLEAN : b.left = 0 /\ (b.eos => x)}}
    \cup {<<<<"Err", er>>, e, 0>> : er \in {x \in Errors : ~b.eos}, e \in BOOLEAN}

\* http_body::Body::poll_trailers of an inner body b: a body that reported
\* end-of-stream has no trailers
inner_poll_trailers(b) ==
    {Pending} \cup (IF b.eos THEN {<<"Ok", "None">>} ELSE TrailerResults)

\* the inner service's future: pending, a response head with a body, or an error
inner_poll ==
    {[res |-> Pending, body |-> [eos |-> FALSE, left |-> 0]]}
    \cup {[res |-> <<"Ok", s>>, body |-> b] : s \in Statuses, b \in InnerBodies}
    \cup {[res |-> <<"Err", e>>, body |-> [eos |-> FALSE, left |-> 0]] : e \in Errors}

\* ------------------------------------------------------- RecordResponse::call
\* MkStreamLabel::mk_stream_labeler: Some(labeler) or None
mk_stream_labeler == {"new", NoLabeler}

\* the request body is wrapped whether or not a labeler was made
RequestBody_always_wrapped(b, tx) ==
    [phase |-> "live", wrapped |-> TRUE, flushed |-> TRUE, eos |-> b.eos, left |-> b.left]

\* the request body as call hands it to the inner service
RequestBody(b, tx) ==
    [phase |-> "live", wrapped |-> tx, flushed |-> tx, eos |-> b.eos, left |-> b.left]

\* <RecordRequestDuration as Service>::call
RecordRequestDuration_call(r) ==
    /\ mode = "RequestDuration"
    /\ fut[r] = "idle"
    /\ \E labeler \in mk_stream_labeler, b \in InnerBodies :
         /\ IF labeler # NoLabeler
            THEN /\ chan' = [chan EXCEPT ![r] = send(channel, now)]
                 /\ panicked' = [panicked EXCEPT ![r] = ~send_is_ok(channel)]
                 /\ state' = [state EXCEPT ![r] = [some |-> TRUE, labeler |-> labeler]]
            ELSE /\ state' = [state EXCEPT ![r] = NoState]
                 /\ UNCHANGED <<chan, panicked>>
         /\ recorded' = [recorded EXCEPT ![r] = labeler # NoLabeler]
         /\ qb' = [qb EXCEPT ![r] = RequestBody(b, FALSE)]
    /\ fut' = [fut EXCEPT ![r] = "pending"]
    /\ arrivedAt' = [arrivedAt EXCEPT ![r] = now]
    /\ UNCHANGED <<rt, dist, conn, watch, app, mode, now, family, rb, futIn, futOut, rspSame, reqSame,
                   flushedAt, headersAt, initLog, endLog, events, term>>

\* <RecordResponseDuration as Service>::call
RecordResponseDuration_call(r) ==
    /\ mode = "ResponseDuration"
    /\ fut[r] = "idle"
    /\ \E labeler \in mk_stream_labeler, b \in InnerBodies :
         /\ IF labeler # NoLabeler
            THEN /\ chan' = [chan EXCEPT ![r] = channel]
                 /\ qb' = [qb EXCEPT ![r] = RequestBody(b, TRUE)]
                 /\ state' = [state EXCEPT ![r] = [some |-> TRUE, labeler |-> labeler]]
            ELSE /\ state' = [state EXCEPT ![r] = NoState]
                 /\ qb' = [qb EXCEPT ![r] = RequestBody(b, FALSE)]
                 /\ UNCHANGED chan
         /\ recorded' = [recorded EXCEPT ![r] = labeler # NoLabeler]
    /\ fut' = [fut EXCEPT ![r] = "pending"]
    /\ arrivedAt' = [arrivedAt EXCEPT ![r] = now]
    /\ UNCHANGED <<rt, dist, conn, watch, app, mode, now, family, rb, futIn, futOut, rspSame, reqSame,
                   flushedAt, headersAt, initLog, endLog, events, term, panicked>>

\* what a poll shows its caller: the result and is_end_stream afterwards
seen(res, eos) == <<res[1], res[2], eos>>

\* is_end_stream is not forwarded: the trait's default answer
is_end_stream_default(b) == FALSE

\* ResponseBody::is_end_stream
ResponseBody_is_end_stream(b) == b.eos

\* ------------------------------------------------------ impl ResponseFuture
\* what ResponseFuture::poll hands back for the inner future's result
ResponseFuture_result(res) == res

\* ResponseFuture::poll, the inner future is pending
poll_Pending(r, p) ==
    /\ futOut' = [futOut EXCEPT ![r] = seen(Pending, FALSE)]
    /\ UNCHANGED <<fut, state, family, chan, endLog, rb, initLog, headersAt>>

\* the Ok(rsp) arm without the is_end_stream check
poll_Ok_no_eos_check(r, p) ==
    LET st == IF state[r].some
              THEN [state[r] EXCEPT !.labeler = init_response(@, p.res[2])]
              ELSE NoState
    IN /\ initLog' = [initLog EXCEPT ![r] = IF state[r].some THEN @ + 1 ELSE @]
       /\ keep_state(r, st)
       /\ rb' = [rb EXCEPT ![r] =
                   [phase |-> "live", eos |-> p.body.eos, left |-> p.body.left]]
       /\ futOut' = [futOut EXCEPT ![r] = seen(p.res, p.body.eos)]
       /\ fut' = [fut EXCEPT ![r] = "ready"]
       /\ headersAt' = [headersAt EXCEPT ![r] = now]

\* ResponseFuture::poll, the Ok(rsp) arm
poll_Ok(r, p) ==
    LET st == IF state[r].some
              THEN [state[r] EXCEPT !.labeler = init_response(@, p.res[2])]
              ELSE NoState
    IN /\ initLog' = [initLog EXCEPT ![r] = IF state[r].some THEN @ + 1 ELSE @]
       /\ IF p.body.eos
          THEN end_stream(r, st, <<"Ok", "None">>)
          ELSE keep_state(r, st)
       /\ rb' = [rb EXCEPT ![r] =
                   [phase |-> "live", eos |-> p.body.eos, left |-> p.body.left]]
       /\ futOut' = [futOut EXCEPT ![r] =
                       seen(ResponseFuture_result(p.res), ResponseBody_is_end_stream(p.body))]
       /\ fut' = [fut EXCEPT ![r] = "ready"]
       /\ headersAt' = [headersAt EXCEPT ![r] = now]

\* the Err(error) arm returning the error without end_stream
poll_Err_unobserved(r, p) ==
    /\ state' = [state EXCEPT ![r] = NoState]
    /\ chan' = [chan EXCEPT ![r] = [@ EXCEPT !.val = NoVal, !.rx = FALSE]]
    /\ futOut' = [futOut EXCEPT ![r] = seen(p.res, FALSE)]
    /\ fut' = [fut EXCEPT ![r] = "ready"]
    /\ UNCHANGED <<family, endLog, rb, initLog, headersAt>>

\* ResponseFuture::poll, the Err(error) arm
poll_Err(r, p) ==
    /\ end_stream(r, state[r], <<"Err", p.res[2]>>)
    /\ futOut' = [futOut EXCEPT ![r] = seen(ResponseFuture_result(p.res), FALSE)]
    /\ fut' = [fut EXCEPT ![r] = "ready"]
    /\ UNCHANGED <<rb, initLog, headersAt>>

\* <ResponseFuture as Future>::poll
ResponseFuture_poll(r) ==
    /\ fut[r] = "pending"
    /\ \E p \in inner_poll :
         /\ futIn' = [futIn EXCEPT ![r] = seen(p.res, p.body.eos)]
         /\ CASE p.res = Pending -> poll_Pending(r, p)
              [] p.res[1] = "Ok" -> poll_Ok(r, p)
              [] p.res[1] = "Err" -> poll_Err(r, p)
    /\ UNCHANGED <<rt, dist, conn, watch, app, mode, now, qb, rspSame, reqSame, recorded, arrivedAt,
                   flushedAt, events, term, panicked>>

\* the caller drops the ResponseFuture before it resolved: its fields are
\* dropped, there is no Drop impl
ResponseFuture_drop(r) ==
    /\ fut[r] = "pending"
    /\ fut' = [fut EXCEPT ![r] = "dropped"]
    /\ state' = [state EXCEPT ![r] = NoState]
    /\ chan' = [chan EXCEPT ![r] = [@ EXCEPT !.val = NoVal, !.rx = FALSE]]
    /\ UNCHANGED <<rt, dist, conn, watch, app, mode, now, family, qb, rb, futIn, futOut, rspSame, reqSame,
                   recorded, arrivedAt, flushedAt, headersAt, initLog, endLog, events, term,
                   panicked>>

\* --------------------------------------------------------- impl RequestBody
\* RequestBody::is_end_stream
RequestBody_is_end_stream(b) == b.eos

\* what RequestBody::poll_data / poll_trailers hand back for the inner result
RequestBody_result(res) == res

\* the instant is sent again although the sender was given up before
flush_resend(r) ==
    /\ chan' = [chan EXCEPT ![r] = send(@, now)]
    /\ flushedAt' = [flushedAt EXCEPT ![r] = IF @ = NoVal THEN now ELSE @]

\* the sender is taken and dropped without a send
flush_not_sent(r) ==
    /\ chan' = chan
    /\ flushedAt' = [flushedAt EXCEPT ![r] = IF @ = NoVal THEN now ELSE @]

\* the flushed.take() / tx.send(now) of the RequestBody wrapper
flush(r) ==
    /\ chan' = [chan EXCEPT ![r] = IF qb[r].flushed THEN send(@, now) ELSE @]
    /\ flushedAt' = [flushedAt EXCEPT ![r] = IF @ = NoVal THEN now ELSE @]

\* <RequestBody as Body>::poll_data, polled by the inner service
RequestBody_poll_data(r) ==
    /\ qb[r].phase = "live"
    /\ \E p \in inner_poll_data(qb[r]) :
         LET b == [qb[r] EXCEPT !.eos = p[2], !.left = p[3]]
         IN /\ reqSame' = [reqSame EXCEPT ![r] =
                              @ /\ seen(RequestBody_result(p[1]), RequestBody_is_end_stream(b)) = seen(p[1], p[2])]
            /\ IF p[1] # Pending /\ b.eos
               THEN /\ flush(r)
                    /\ qb' = [qb EXCEPT ![r] = [b EXCEPT !.flushed = FALSE]]
               ELSE /\ qb' = [qb EXCEPT ![r] = b]
                    /\ UNCHANGED <<chan, flushedAt>>
    /\ UNCHANGED <<rt, dist, conn, watch, app, mode, now, family, fut, state, rb, futIn, futOut, rspSame,
                   recorded, arrivedAt, headersAt, initLog, endLog, events, term, panicked>>

\* <RequestBody as Body>::poll_trailers, polled by the inner service
RequestBody_poll_trailers(r) ==
    /\ qb[r].phase = "live"
    /\ \E res \in inner_poll_trailers(qb[r]) :
         /\ reqSame' = [reqSame EXCEPT ![r] =
                           @ /\ seen(RequestBody_result(res), RequestBody_is_end_stream(qb[r])) = seen(res, qb[r].eos)]
         /\ IF res # Pending
            THEN /\ flush(r)
                 /\ qb' = [qb EXCEPT ![r] = [@ EXCEPT !.flushed = FALSE, !.left = 0]]
            ELSE UNCHANGED <<qb, chan, flushedAt>>
    /\ UNCHANGED <<rt, dist, conn, watch, app, mode, now, family, fut, state, rb, futIn, futOut, rspSame,
                   recorded, arrivedAt, headersAt, initLog, endLog, events, term, panicked>>

\* RequestBody without a PinnedDrop impl: the sender is dropped unwritten
RequestBody_drop_plain(r) ==
    /\ qb[r].phase = "live"
    /\ flushedAt' = [flushedAt EXCEPT ![r] = IF @ = NoVal THEN now ELSE @]
    /\ qb' = [qb EXCEPT ![r] = [@ EXCEPT !.phase = "dropped", !.flushed = FALSE]]
    /\ UNCHANGED <<rt, dist, conn, watch, app, mode, now, family, fut, state, chan, rb, futIn, futOut, rspSame, reqSame,
                   recorded, arrivedAt, headersAt, initLog, endLog, events, term, panicked>>

\* <RequestBody as PinnedDrop>::drop, when the inner service drops the request body
RequestBody_drop(r) ==
    /\ qb[r].phase = "live"
    /\ flush(r)
    /\ qb' = [qb EXCEPT ![r] = [@ EXCEPT !.phase = "dropped", !.flushed = FALSE]]
    /\ UNCHANGED <<rt, dist, conn, watch, app, mode, now, family, fut, state, rb, futIn, futOut, rspSame, reqSame, recorded, arrivedAt, headersAt, initLog, endLog, events, term, panicked>>

\* -------------------------------------------------------- impl ResponseBody
\* what ResponseBody::poll_data / poll_trailers hand back for the inner result
ResponseBody_result(res) == res

\* end-of-stream tested before the error
data_end_eos_first(res, eos) ==
    IF eos THEN <<"Ok", "None">> ELSE IF res[1] = "Err" THEN res ELSE NoEnd

\* the outcome poll_data finalizes with: an error first, else end-of-stream
data_end(res, eos) ==
    IF res[1] = "Err" THEN res ELSE IF eos THEN <<"Ok", "None">> ELSE NoEnd

\* what the caller has seen through the response body after a completed poll
observe(ev, op, res, eos) ==
    ev \cup (IF op = "trailers" THEN {"trailers"} ELSE {})
       \cup (IF op = "data" /\ res[1] = "Err" THEN {"err"} ELSE {})
       \cup (IF op = "data" /\ res[1] = "None" THEN {"none"} ELSE {})
       \cup (IF op = "data" /\ eos THEN {"eos"} ELSE {})

\* the first completed poll that showed an error, end-of-stream or trailers
first_term(t, op, res, eos) ==
    IF t = NoTerm /\ (op = "trailers" \/ res[1] = "Err" \/ eos)
    THEN [op |-> op, res |-> res, eos |-> eos, at |-> now]
    ELSE t

\* <ResponseBody as Body>::poll_data, polled by the caller
ResponseBody_poll_data(r) ==
    /\ rb[r].phase = "live"
    /\ \E p \in inner_poll_data(rb[r]) :
         LET b == [rb[r] EXCEPT !.eos = p[2], !.left = p[3]]
             out == seen(ResponseBody_result(p[1]), ResponseBody_is_end_stream(b))
         IN /\ rspSame' = [rspSame EXCEPT ![r] = @ /\ out = seen(p[1], p[2])]
            /\ rb' = [rb EXCEPT ![r] = b]
            /\ IF p[1] = Pending
               THEN /\ keep_state(r, state[r])
                    /\ UNCHANGED <<events, term>>
               ELSE /\ IF data_end(p[1], b.eos) = NoEnd
                       THEN keep_state(r, state[r])
                       ELSE end_stream(r, state[r], data_end(p[1], b.eos))
                    /\ events' = [events EXCEPT ![r] = observe(@, "data", p[1], p[2])]
                    /\ term' = [term EXCEPT ![r] = first_term(@, "data", p[1], p[2])]
    /\ UNCHANGED <<rt, dist, conn, watch, app, mode, now, fut, qb, futIn, futOut, reqSame, recorded, arrivedAt,
                   flushedAt, headersAt, initLog, panicked>>

\* <ResponseBody as Body>::poll_trailers, polled by the caller
ResponseBody_poll_trailers(r) ==
    /\ rb[r].phase = "live"
    /\ \E res \in inner_poll_trailers(rb[r]) :
         LET out == seen(ResponseBody_result(res), ResponseBody_is_end_stream(rb[r]))
         IN /\ rspSame' = [rspSame EXCEPT ![r] = @ /\ out = seen(res, rb[r].eos)]
            /\ IF res = Pending
               THEN /\ keep_state(r, state[r])
                    /\ UNCHANGED <<events, term, rb>>
               ELSE /\ end_stream(r, state[r], res)
                    /\ events' = [events EXCEPT ![r] = observe(@, "trailers", res, rb[r].eos)]
                    /\ term' = [term EXCEPT ![r] = first_term(@, "trailers", res, rb[r].eos)]
                    /\ rb' = [rb EXCEPT ![r] = [@ EXCEPT !.left = 0]]
    /\ UNCHANGED <<rt, dist, conn, watch, app, mode, now, fut, qb, futIn, futOut, reqSame, recorded, arrivedAt,
                   flushedAt, headersAt, initLog, panicked>>

\* ResponseBody without a PinnedDrop impl: the slot is dropped with the body
ResponseBody_drop_plain(r) ==
    /\ rb[r].phase = "live"
    /\ state' = [state EXCEPT ![r] = NoState]
    /\ chan' = [chan EXCEPT ![r] = [@ EXCEPT !.val = NoVal, !.rx = FALSE]]
    /\ rb' = [rb EXCEPT ![r] = [@ EXCEPT !.phase = "dropped"]]
    /\ UNCHANGED <<rt, dist, conn, watch, app, mode, now, family, fut, qb, futIn, futOut, rspSame, reqSame, recorded,
                   arrivedAt, flushedAt, headersAt, initLog, endLog, events, term, panicked>>

\* <ResponseBody as PinnedDrop>::drop, when the caller drops the response body
ResponseBody_drop(r) ==
    /\ rb[r].phase = "live"
    /\ IF state[r].some
       THEN end_stream(r, state[r], <<"Err", RequestCancelled>>)
       ELSE keep_state(r, state[r])
    /\ rb' = [rb EXCEPT ![r] = [@ EXCEPT !.phase = "dropped"]]
    /\ UNCHANGED <<rt, dist, conn, watch, app, mode, now, fut, qb, futIn, futOut, rspSame, reqSame,
                   recorded, arrivedAt, flushedAt, headersAt, initLog, events, term, panicked>>

\* ------------------------------------------------------------ specification
Next ==
    \/ Tick
    \/ \E r \in Reqs : RecordRequestDuration_call(r)
    \/ \E r \in Reqs : RecordResponseDuration_call(r)
    \/ \E r \in Reqs : ResponseFuture_poll(r)
    \/ \E r \in Reqs : ResponseFuture_drop(r)
    \/ \E r \in Reqs : RequestBody_poll_data(r)
    \/ \E r \in Reqs : RequestBody_poll_trailers(r)
    \/ \E r \in Reqs : RequestBody_drop(r)
    \/ \E r \in Reqs : ResponseBody_poll_data(r)
    \/ \E r \in Reqs : ResponseBody_poll_trailers(r)
    \/ \E r \in Reqs : ResponseBody_drop(r)

Spec == Init /\ [][Next]_vars

\* ------------------------------------------- several requests in flight
\* Two requests go through one RecordRequestDuration service and share its
\* DurationFamily.  The request bodies are left alone (they are not wrapped
\* in this mode) and the responses carry no data frames: a response ends at
\* its head, by its trailers, by an error of the inner future or by a drop.
\* Calls, polls, drops and clock ticks of the two requests interleave freely.
Concurrent == {"r1", "r2"}

\* the inner service answers r1 with 200 and r2 with 503
StatusOf(r) == IF r = "r1" THEN "200" ELSE "503"

\* the part of the inner service's behaviour that is followed
Narrow(S) ==
    \A r \in S :
        /\ qb[r].left = 0 /\ ~qb[r].eos /\ rb[r].left = 0
        /\ futIn[r][2] \in {"-", StatusOf(r), "io"}

ConcInit ==
    /\ mode = "RequestDuration"
    /\ RecordResponse_idle(Concurrent)
    /\ rt = NoResolution /\ dist = NoSelection /\ conn = NoConnection
    /\ watch = NoWatch /\ app = NoApp

ConcNext ==
    \/ Tick
    \/ \E r \in Concurrent : RecordRequestDuration_call(r) /\ Narrow(Concurrent)'
    \/ \E r \in Concurrent : ResponseFuture_poll(r) /\ Narrow(Concurrent)'
    \/ \E r \in Concurrent : ResponseFuture_drop(r)
    \/ \E r \in Concurrent : ResponseBody_poll_trailers(r) /\ Narrow(Concurrent)'
    \/ \E r \in Concurrent : ResponseBody_drop(r)

ConcSpec == ConcInit /\ [][ConcNext]_vars

\* =================================================== outbound HTTP routing
\* The client policy of linkerd/app/integration/src/tests/client_policy.rs:
\* a Detect protocol with one route table per HTTP version, routes holding
\* ordered rules, rules holding match-sets of header predicates and a
\* FirstAvailable backend list.  Requests are GET / with or without the
\* x-hello-city header.

\* longest flattened rule sequence of a route table
MaxRules == 3

HEADER == "x-hello-city"
Absent == "<absent>"
HeaderValues == {"sf", "san francisco", "austin", "paris"}
Versions == {"Http1", "Http2"}
NoRouteMatched == "NoRouteMatched"
NoError == "-"

\* the three header predicate kinds
Exact(v) == [name |-> HEADER, kind |-> "Exact", value |-> <<v>>]
Regex(alternatives) == [name |-> HEADER, kind |-> "Regex", value |-> alternatives]
Present == [name |-> HEADER, kind |-> "Present", value |-> <<>>]

HttpRouteMatch(headers) == [headers |-> headers]
Rule(matches, dst) == [matches |-> matches, backends |-> <<dst>>]
HttpRoute(rules) == [hosts |-> <<>>, rules |-> rules]
Detect(http1, http2) == [Http1 |-> http1, Http2 |-> http2]

\* the rules of header_based_routing: the regex "sf|san francisco" is kept
\* as the list of strings it matches in full
RuleWorld == Rule(<<>>, "world")
RuleSf == Rule(<<HttpRouteMatch(<<Regex(<<"sf", "san francisco">>)>>)>>, "sf")
RuleAustin == Rule(<<HttpRouteMatch(<<Exact("austin")>>)>>, "austin")
\* a rule for any request that carries the header
RuleAny == Rule(<<HttpRouteMatch(<<Present>>)>>, "any")

HelloRules == <<RuleWorld, RuleSf, RuleAustin>>
EmptyRoute == HttpRoute(<<>>)
outbound_default_route == HttpRoute(<<RuleWorld>>)

Request(version, value) ==
    [version |-> version, headers |-> [h \in {HEADER} |-> value]]

\* ---- predicate evaluation
header_matches_absent_as_empty(p, req) ==
    LET v == req.headers[p.name]
    IN  CASE p.kind = "Exact" -> v = p.value[1]
          [] p.kind = "Regex" -> \E i \in DOMAIN p.value : p.value[i] = v
          [] p.kind = "Present" -> TRUE

header_matches(p, req) ==
    LET v == req.headers[p.name]
    IN  IF v = Absent
        THEN FALSE
        ELSE CASE p.kind = "Exact" -> v = p.value[1]
               [] p.kind = "Regex" -> \E i \in DOMAIN p.value : p.value[i] = v
               [] p.kind = "Present" -> TRUE

\* a match-set holds when every one of its predicates holds
match_request(m, req) ==
    \A i \in DOMAIN m.headers : header_matches(m.headers[i], req)

\* ---- how well a rule matches a request: 0 not at all, 1 by having no
\* match-sets, 2 by a match-set that holds.  header_based_routing sends
\* "sf", "san francisco" and "austin" to the second and third rule although
\* the first rule has no match-sets, so a match-set that holds outranks it.
rank_flat(rule, req) ==
    IF rule.matches = <<>> \/ \E i \in DOMAIN rule.matches : match_request(rule.matches[i], req)
    THEN 1
    ELSE 0

rank_unmatched_as_default(rule, req) ==
    IF \E i \in DOMAIN rule.matches : match_request(rule.matches[i], req)
    THEN 2
    ELSE 1

rank_default_first(rule, req) ==
    IF rule.matches = <<>>
    THEN 2
    ELSE IF \E i \in DOMAIN rule.matches : match_request(rule.matches[i], req)
         THEN 1
         ELSE 0

rank(rule, req) ==
    IF rule.matches = <<>>
    THEN 1
    ELSE IF \E i \in DOMAIN rule.matches : match_request(rule.matches[i], req)
         THEN 2
         ELSE 0

\* ---- the matcher: the best-ranked rule, the earliest one among equals;
\* 0 when no rule matches
RECURSIVE find_from(_, _, _, _)
find_from(rules, req, i, best) ==
    IF i > Len(rules)
    THEN best
    ELSE LET k == rank(rules[i], req)
         IN  find_from(rules, req, i + 1,
                       IF k > 0 /\ (best = 0 \/ k > rank(rules[best], req))
                       THEN i
                       ELSE best)

find(rules, req) == find_from(rules, req, 1, 0)

\* the rules of the routes whose hosts admit the request, in order
RECURSIVE flatten(_)
flatten(routes) ==
    IF routes = <<>>
    THEN <<>>
    ELSE (IF Head(routes).hosts = <<>> THEN Head(routes).rules ELSE <<>>)
         \o flatten(Tail(routes))

Other(version) == IF version = "Http1" THEN "Http2" ELSE "Http1"

\* the route table of the detected HTTP version
http_routes_fallback(policy, version) ==
    IF flatten(policy[version]) = <<>> THEN policy[Other(version)] ELSE policy[version]

http_routes(policy, version) == policy[version]

\* ---- bounded inputs
MaxRequests == 2

RulePool == {RuleWorld, RuleSf, RuleAustin, RuleAny}
RuleSeqs == UNION {[1..n -> RulePool] : n \in 0..MaxRules}

\* a rule sequence as one route, or cut into two routes at any position
Tables ==
    {<<HttpRoute(rs)>> : rs \in RuleSeqs}
    \cup {<<HttpRoute(SubSeq(rs, 1, k)), HttpRoute(SubSeq(rs, k + 1, Len(rs)))>> :
            <<rs, k>> \in {<<rs, k>> \in RuleSeqs \X (0..MaxRules) : k <= Len(rs)}}
SmallTables == {<<EmptyRoute>>, <<outbound_default_route>>}
Policies ==
    {Detect(a, b) : <<a, b>> \in (Tables \X SmallTables) \cup (SmallTables \X Tables)}
Requests == {Request(v, h) : <<v, h>> \in Versions \X (HeaderValues \cup {Absent})}

NoPrev == [version |-> "-", err |-> NoError]
new_resolution(policy, req, n, prev) ==
    [phase |-> "new", policy |-> policy, req |-> req, n |-> n, prev |-> prev,
     selected |-> 0, backends |-> <<>>, err |-> NoError, status |-> "-"]

\* every variable of the recorder
recorderVars == <<mode, now, family, fut, state, chan, qb, rb, futIn, futOut,
                  rspSame, reqSame, recorded, arrivedAt, flushedAt, headersAt,
                  initLog, endLog, events, term, panicked>>

RouteInit ==
    /\ mode = "RequestDuration"
    /\ RecordResponse_new
    /\ \E policy \in Policies, req \in Requests :
          rt = new_resolution(policy, req, 1, NoPrev)
    /\ dist = NoSelection /\ conn = NoConnection
    /\ watch = NoWatch /\ app = NoApp

\* the proxy routes the request: 404 when no rule matches
resolve ==
    /\ rt.phase = "new"
    /\ LET rules == flatten(http_routes(rt.policy, rt.req.version))
           i == find(rules, rt.req)
       IN  rt' = [rt EXCEPT !.phase = "done",
                            !.selected = i,
                            !.backends = IF i = 0 THEN <<>> ELSE rules[i].backends,
                            !.err = IF i = 0 THEN NoRouteMatched ELSE NoError,
                            !.status = IF i = 0 THEN "404" ELSE "200"]
    /\ UNCHANGED <<recorderVars, dist, conn, watch, app>>

\* the client sends another request under the same policy
request ==
    /\ rt.phase = "done"
    /\ rt.n < MaxRequests
    /\ \E req \in Requests :
          rt' = new_resolution(rt.policy, req, rt.n + 1,
                               [version |-> rt.req.version, err |-> rt.err])
    /\ UNCHANGED <<recorderVars, dist, conn, watch, app>>

RouteNext ==
    \/ resolve
    \/ request

RouteSpec == RouteInit /\ [][RouteNext]_vars

\* ================================================== distribution resolver
\* A rule's FirstAvailable distribution is resolved against the availability
\* oracle, which reflects endpoint health owned elsewhere and changes at any
\* time.

\* longest FirstAvailable backend list
MaxBackends == 3

Backends == {"A", "B", "C"}
NoBackend == "-"
NoBackendAvailable == "NoBackendAvailable"

\* a validated distribution names at least one backend
BackendLists == UNION {[1..n -> Backends] : n \in 1..MaxBackends}

\* the scan runs from the end of the list
RECURSIVE first_available_from_end(_, _)
first_available_from_end(backends, available) ==
    IF backends = <<>>
    THEN NoBackend
    ELSE IF backends[Len(backends)] \in available
         THEN backends[Len(backends)]
         ELSE first_available_from_end(SubSeq(backends, 1, Len(backends) - 1), available)

\* FirstAvailable: the first backend of the list the oracle holds for
RECURSIVE first_available(_, _)
first_available(backends, available) ==
    IF backends = <<>>
    THEN NoBackend
    ELSE IF Head(backends) \in available
         THEN Head(backends)
         ELSE first_available(Tail(backends), available)

otherVarsOfDist == <<recorderVars, rt, conn, watch, app>>

DistInit ==
    /\ mode = "RequestDuration"
    /\ RecordResponse_new
    /\ \E backends \in BackendLists, available \in SUBSET Backends :
          dist = [phase |-> "pending", backends |-> backends, available |-> available,
                  queried |-> {}, selected |-> NoBackend, err |-> NoError]
    /\ rt = NoResolution /\ conn = NoConnection
    /\ watch = NoWatch /\ app = NoApp

\* the health of a backend changes
health_change ==
    /\ \E b \in Backends :
          dist' = [dist EXCEPT !.available =
                      IF b \in @ THEN @ \ {b} ELSE @ \cup {b}]
    /\ UNCHANGED otherVarsOfDist

\* one selection: the oracle is queried as it is now
select ==
    /\ dist.phase = "pending"
    /\ LET b == first_available(dist.backends, dist.available)
       IN  dist' = [dist EXCEPT !.phase = "done",
                                !.queried = dist.available,
                                !.selected = b,
                                !.err = IF b = NoBackend THEN NoBackendAvailable ELSE NoError]
    /\ UNCHANGED otherVarsOfDist

DistNext ==
    \/ health_change
    \/ select

DistSpec == DistInit /\ [][DistNext]_vars

\* ====================================================== protocol detector
\* One connection under a Detect policy: bytes are sniffed until they show
\* HTTP/1 or HTTP/2, the timeout expires, or the connection is closed.  A
\* detected connection is handed to the matcher of its version.

\* longest detection timeout, in clock ticks
MaxTimeout == 2

DetectionTimeout == "DetectionTimeout"
\* what the peer is going to send
Peers == {"h1", "h2", "silent"}
\* what the buffered bytes show so far
Buffers == {"none", "ambiguous", "h1", "h2"}
Terminal == {"Http1", "Http2", "TimedOut"}

\* the buffers a further read can leave, for a peer and a buffer
read_more(peer, buf) ==
    IF peer = "silent" \/ buf \in {"h1", "h2"}
    THEN {}
    ELSE {"ambiguous", peer}

\* what the bytes determine: the HTTP/2 preface, an HTTP/1 request line, or nothing yet
determine(buf) ==
    CASE buf = "h2" -> "Http2"
      [] buf = "h1" -> "Http1"
      [] OTHER -> "Sniffing"

\* expiry taken as a fallback to HTTP/1
expired_as_http1(c) == [c EXCEPT !.state = "Http1", !.ended = Append(@, "Http1")]

\* the timeout elapsed before a determination
expired(c) ==
    [c EXCEPT !.state = "TimedOut", !.err = DetectionTimeout, !.ended = Append(@, "TimedOut")]

\* the closure is noted but detection goes on
closed_unnoticed(c) == [c EXCEPT !.open = FALSE]

\* the connection is closed while detection is sniffing
closed(c) == [c EXCEPT !.open = FALSE, !.state = "Cancelled"]

otherVarsOfDetect == <<recorderVars, rt, dist, watch, app>>

DetectInit ==
    /\ mode = "RequestDuration"
    /\ RecordResponse_new
    /\ \E limit \in 0..MaxTimeout, peer \in Peers :
          conn = [state |-> "Start", open |-> TRUE, peer |-> peer, timeout |-> limit,
                  elapsed |-> 0, buf |-> "none", attempts |-> 0, ended |-> <<>>,
                  err |-> NoError, routed |-> "-"]
    /\ rt = NoResolution /\ dist = NoSelection
    /\ watch = NoWatch /\ app = NoApp

\* Start: reading begins and the timeout clock is started
detect ==
    /\ conn.state = "Start"
    /\ conn' = [conn EXCEPT !.state = "Sniffing", !.attempts = @ + 1]
    /\ UNCHANGED otherVarsOfDetect

\* more bytes are accumulated
read ==
    /\ conn.state = "Sniffing"
    /\ conn.open
    /\ \E buf \in read_more(conn.peer, conn.buf) : conn' = [conn EXCEPT !.buf = buf]
    /\ UNCHANGED otherVarsOfDetect

\* Sniffing: the accumulated bytes are inspected and determine the version
sniff ==
    /\ conn.state = "Sniffing"
    /\ determine(conn.buf) # "Sniffing"
    /\ conn' = [conn EXCEPT !.state = determine(conn.buf),
                            !.ended = Append(@, determine(conn.buf))]
    /\ UNCHANGED otherVarsOfDetect

\* time passes on the timeout clock
tick ==
    /\ conn.state = "Sniffing"
    /\ conn.elapsed < conn.timeout
    /\ conn' = [conn EXCEPT !.elapsed = @ + 1]
    /\ UNCHANGED otherVarsOfDetect

\* the timeout clock fires
timeout ==
    /\ conn.state = "Sniffing"
    /\ conn.elapsed = conn.timeout
    /\ conn' = expired(conn)
    /\ UNCHANGED otherVarsOfDetect

\* the peer or the proxy closes the connection
close ==
    /\ conn.state = "Sniffing"
    /\ conn.open
    /\ conn' = closed(conn)
    /\ UNCHANGED otherVarsOfDetect

\* Http1 / Http2: the connection is handed to the matcher of that version
hand_over ==
    /\ conn.state \in {"Http1", "Http2"}
    /\ conn.routed = "-"
    /\ conn' = [conn EXCEPT !.routed = conn.state]
    /\ UNCHANGED otherVarsOfDetect

DetectNext ==
    \/ detect
    \/ read
    \/ sniff
    \/ tick
    \/ timeout
    \/ close
    \/ hand_over

DetectSpec == DetectInit /\ [][DetectNext]_vars

\* detection is scheduled: the clock runs, the timer fires, buffered bytes
\* are inspected and a detected connection is handed over; reads and
\* closures are up to the peer
DetectFairSpec ==
    /\ DetectSpec
    /\ WF_vars(detect) /\ WF_vars(tick) /\ WF_vars(timeout)
    /\ WF_vars(sniff) /\ WF_vars(hand_over)

\* ==================================================== policy watch channel
\* outbound::policy::Receiver is a tokio::sync::watch::Receiver<ClientPolicy>:
\* one slot holding the latest policy and a version; the writer replaces the
\* value, readers borrow it, and a reader may await the next change.

\* number of policies the control plane publishes
MaxPublish == 3

Snapshots == {"p1", "p2"}
Readers == {"q1", "q2"}
NoSnapshot == "-"

\* watch::Sender::send: the value is replaced and the version bumped
Sender_send(w, v) == [w EXCEPT !.value = v, !.version = @ + 1]

\* the reader is handed the value it was handed the time before
Receiver_borrow_held(w, q) ==
    IF w.readers[q].got = NoSnapshot THEN w.value ELSE w.readers[q].got

\* watch::Receiver::borrow: the value in the slot
Receiver_borrow(w, q) == w.value

\* watch::Receiver::changed is ready once the version moved past the one seen
Receiver_has_changed(w, q) == w.version > w.readers[q].seen

otherVarsOfWatch == <<recorderVars, rt, dist, conn, app>>

WatchInit ==
    /\ mode = "RequestDuration"
    /\ RecordResponse_new
    /\ watch = [value |-> "p0", version |-> 0, last |-> "p0",
                readers |-> [q \in Readers |->
                    [seen |-> 0, got |-> NoSnapshot, latest |-> NoSnapshot,
                     at |-> 0, waiting |-> FALSE]]]
    /\ rt = NoResolution /\ dist = NoSelection
    /\ conn = NoConnection /\ app = NoApp

\* the control-plane client publishes a policy
publish ==
    /\ watch.version < MaxPublish
    /\ \E v \in Snapshots :
          watch' = [Sender_send(watch, v) EXCEPT !.last = v]
    /\ UNCHANGED otherVarsOfWatch

\* a routing decision takes the current policy
route_decision(q) ==
    /\ watch' = [watch EXCEPT !.readers[q] =
                    [@ EXCEPT !.got = Receiver_borrow(watch, q),
                              !.latest = watch.last,
                              !.at = watch.version]]
    /\ UNCHANGED otherVarsOfWatch

\* a task starts awaiting the next change of the policy
await_changed(q) ==
    /\ ~watch.readers[q].waiting
    /\ watch' = [watch EXCEPT !.readers[q].waiting = TRUE]
    /\ UNCHANGED otherVarsOfWatch

\* changed() resolves: the new version is marked seen
changed(q) ==
    /\ watch.readers[q].waiting
    /\ Receiver_has_changed(watch, q)
    /\ watch' = [watch EXCEPT !.readers[q].waiting = FALSE,
                              !.readers[q].seen = watch.version]
    /\ UNCHANGED otherVarsOfWatch

WatchNext ==
    \/ publish
    \/ \E q \in Readers : route_decision(q)
    \/ \E q \in Readers : await_changed(q)
    \/ \E q \in Readers : changed(q)

WatchSpec == WatchInit /\ [][WatchNext]_vars

\* ============================================================ main task
\* linkerd2-proxy/src/main.rs: once the app is spawned the main task selects
\* over the shutdown signal and the admin shutdown channel, then awaits the
\* drain under the shutdown grace period.

\* longest shutdown grace period, in clock ticks
MaxGrace == 2
\* most tasks holding a drain watch
MaxHandles == 2

\* drain.drain() awaited without a timeout
timeout_poll_unbounded(handles, elapsed, grace) ==
    IF handles = 0 THEN "graceful" ELSE "pending"

\* a poll of time::timeout(shutdown_grace_period, drain.drain()): the drain
\* is polled first, then the deadline
timeout_poll(handles, elapsed, grace) ==
    IF handles = 0
    THEN "graceful"
    ELSE IF elapsed >= grace THEN "terminated" ELSE "pending"

\* the branches of the select! that are ready
ready_branches(a) ==
    (IF a.signal THEN {"signal"} ELSE {})
    \cup (IF a.queued > 0 \/ ~a.tx THEN {"admin"} ELSE {})

otherVarsOfApp == <<recorderVars, rt, dist, conn, watch>>

AppInit ==
    /\ mode = "RequestDuration"
    /\ RecordResponse_new
    /\ \E grace \in 0..MaxGrace :
          app = [pc |-> "built", grace |-> grace, signal |-> FALSE, queued |-> 0,
                 tx |-> TRUE, handles |-> 0, draining |-> FALSE, elapsed |-> 0,
                 via |-> "-", outcome |-> "-"]
    /\ rt = NoResolution /\ dist = NoSelection
    /\ conn = NoConnection /\ watch = NoWatch

\* let drain = app.spawn()
spawn ==
    /\ app.pc = "built"
    /\ app' = [app EXCEPT !.pc = "select"]
    /\ UNCHANGED otherVarsOfApp

\* the process receives a shutdown signal
signal_shutdown ==
    /\ app.pc \in {"select", "draining"}
    /\ ~app.signal
    /\ app' = [app EXCEPT !.signal = TRUE]
    /\ UNCHANGED otherVarsOfApp

\* the admin interface sends on shutdown_tx
admin_shutdown ==
    /\ app.pc \in {"select", "draining"}
    /\ app.tx
    /\ app.queued = 0
    /\ app' = [app EXCEPT !.queued = 1]
    /\ UNCHANGED otherVarsOfApp

\* the admin server goes away and shutdown_tx with it
admin_dropped ==
    /\ app.pc \in {"select", "draining"}
    /\ app.tx
    /\ app' = [app EXCEPT !.tx = FALSE]
    /\ UNCHANGED otherVarsOfApp

\* a proxy task takes a drain watch
serve ==
    /\ app.pc = "select"
    /\ app.handles < MaxHandles
    /\ app' = [app EXCEPT !.handles = @ + 1]
    /\ UNCHANGED otherVarsOfApp

\* a proxy task finishes and releases its drain watch
release ==
    /\ app.pc \in {"select", "draining"}
    /\ app.handles > 0
    /\ app' = [app EXCEPT !.handles = @ - 1]
    /\ UNCHANGED otherVarsOfApp

\* tokio::select! completes on a ready branch; drain.drain() is then started
\* under the grace period
select_shutdown ==
    /\ app.pc = "select"
    /\ \E branch \in ready_branches(app) :
          app' = [app EXCEPT !.pc = "draining",
                             !.via = branch,
                             !.queued = IF branch = "admin" /\ @ > 0 THEN @ - 1 ELSE @,
                             !.draining = TRUE,
                             !.elapsed = 0]
    /\ UNCHANGED otherVarsOfApp

\* time passes on the grace period
grace_tick ==
    /\ app.pc = "draining"
    /\ app.elapsed < app.grace
    /\ app' = [app EXCEPT !.elapsed = @ + 1]
    /\ UNCHANGED otherVarsOfApp

\* the timeout future completes and main returns
shutdown ==
    /\ app.pc = "draining"
    /\ timeout_poll(app.handles, app.elapsed, app.grace) # "pending"
    /\ app' = [app EXCEPT !.pc = "exited",
                          !.outcome = timeout_poll(app.handles, app.elapsed, app.grace)]
    /\ UNCHANGED otherVarsOfApp

AppNext ==
    \/ spawn
    \/ signal_shutdown
    \/ admin_shutdown
    \/ admin_dropped
    \/ serve
    \/ release
    \/ select_shutdown
    \/ grace_tick
    \/ shutdown

AppSpec == AppInit /\ [][AppNext]_vars

\* the runtime keeps polling the main task and the clock runs; signals, admin
\* requests and the progress of the drain are not promised
AppFairSpec ==
    /\ AppSpec
    /\ WF_vars(spawn) /\ WF_vars(select_shutdown)
    /\ WF_vars(grace_tick) /\ WF_vars(shutdown)

\* ----------------------------------------------------------------- claims
Cancelled == <<"Err", RequestCancelled>>

\* the response head arrived for r, with or without a body that is already ended
HeadOk(r) == futIn[r][1] = "Ok"
HeadEos(r) == futIn[r][3]

\* the label set the labeler of r yields for an outcome once it saw the head
LabelOf(r, res) == end_response(init_response("new", futIn[r][2]), res)

\* the i-th observation of r is in the histogram family
InFamily(r, i) == BagIn(<<endLog[r][i].lbl, endLog[r][i].elapsed>>, family)

RECURSIVE Logged(_)
Logged(S) == IF S = {} THEN 0
             ELSE LET r == CHOOSE x \in S : TRUE IN Len(endLog[r]) + Logged(S \ {r})

\* C1: a recorded request whose head came with a non-empty body and whose
\* response body is dropped before end-of-stream, trailers or an error was
\* seen has exactly one observation, labelled by end_response from the
\* RequestCancelled outcome.
C1_DropCancelled ==
    \A r \in Reqs :
        (/\ recorded[r] /\ HeadOk(r) /\ ~HeadEos(r)
         /\ rb[r].phase = "dropped"
         /\ events[r] \cap {"eos", "trailers", "err"} = {})
        => /\ Len(endLog[r]) = 1
           /\ endLog[r][1].res = Cancelled
           /\ endLog[r][1].lbl = LabelOf(r, Cancelled)
           /\ InFamily(r, 1)
           /\ BagCardinality(family) = Logged(Reqs)

C1_Witness ==
    \E r \in Reqs :
        /\ recorded[r] /\ HeadOk(r) /\ ~HeadEos(r)
        /\ rb[r].phase = "dropped"
        /\ events[r] \cap {"eos", "trailers", "err"} = {}
        /\ Len(endLog[r]) = 1

\* C2: whatever the polls, errors and drops, end_response is invoked at most
\* once per request and the family holds exactly the observations of those
\* invocations, so at most one per request.
C2_AtMostOnce ==
    /\ \A r \in Reqs : Len(endLog[r]) <= 1
    /\ BagCardinality(family) = Logged(Reqs)

C2_Witness ==
    \E r \in Reqs :
        /\ recorded[r]
        /\ {"eos", "trailers"} \subseteq events[r]
        /\ rb[r].phase = "dropped"
        /\ Len(endLog[r]) = 1

\* C3: the label observer of a recorded request is never discarded without
\* being finalized: once its slot is empty, one observation has been made.
C3_NeverDiscarded ==
    \A r \in Reqs : (recorded[r] /\ ~state[r].some) => Len(endLog[r]) = 1

\* C4: when the labeler declines, the request body is forwarded unwrapped, no
\* channel is made and no observation is ever made for the request.
C4_DeclinedNoEffect ==
    \A r \in Reqs :
        (fut[r] # "idle" /\ ~recorded[r])
        => /\ ~qb[r].wrapped /\ ~qb[r].flushed
           /\ ~chan[r].made
           /\ ~state[r].some
           /\ endLog[r] = <<>>
           /\ ((\A q \in Reqs \ {r} : endLog[q] = <<>>) => family = EmptyBag)

C4_Witness ==
    \E r \in Reqs :
        /\ fut[r] = "ready" /\ ~recorded[r]
        /\ {"none", "trailers"} \subseteq events[r]
        /\ rb[r].phase = "dropped"
        /\ qb[r].phase = "dropped"

\* C5: what the caller sees from the response future and the response body,
\* and what the inner service sees from the request body, is what the inner
\* parts produced, poll by poll, and call never panics.
C5_Transparent ==
    \A r \in Reqs :
        /\ rspSame[r]
        /\ reqSame[r]
        /\ futOut[r] = futIn[r]
        /\ ~panicked[r]

C5_Witness ==
    \E r \in Reqs :
        /\ recorded[r] /\ HeadOk(r)
        /\ {"eos", "trailers"} \subseteq events[r]
        /\ qb[r].phase = "dropped"
        /\ qb[r].left = 0

\* C6: when the inner future fails for a recorded request, one observation is
\* made with that error as the outcome, the same error is returned, and no
\* response body exists that could observe again.
C6_InnerError ==
    \A r \in Reqs :
        (recorded[r] /\ fut[r] = "ready" /\ futIn[r][1] = "Err")
        => /\ Len(endLog[r]) = 1
           /\ endLog[r][1].res = <<"Err", futIn[r][2]>>
           /\ InFamily(r, 1)
           /\ futOut[r] = futIn[r]
           /\ rb[r].phase = "none"

C6_Witness ==
    \E r \in Reqs :
        /\ recorded[r] /\ fut[r] = "ready" /\ futIn[r][1] = "Err"
        /\ Len(endLog[r]) = 1
        /\ endLog[r][1].at < now

\* C7: when the head of a recorded request arrives with a body that already
\* reports end-of-stream, the metric is finalized then with Ok(None), and
\* stays the only observation when the body is dropped.
C7_EmptyBody ==
    \A r \in Reqs :
        (recorded[r] /\ HeadOk(r) /\ HeadEos(r))
        => /\ Len(endLog[r]) = 1
           /\ endLog[r][1].res = <<"Ok", "None">>
           /\ endLog[r][1].at = headersAt[r]
           /\ InFamily(r, 1)

C7_Witness ==
    \E r \in Reqs :
        /\ recorded[r] /\ HeadOk(r) /\ HeadEos(r)
        /\ rb[r].phase = "dropped"
        /\ headersAt[r] < now

\* the outcome that belongs to a terminal poll
TermOutcome(t) ==
    IF t.op = "data"
    THEN IF t.res[1] = "Err" THEN t.res ELSE <<"Ok", "None">>
    ELSE t.res

\* C8: for a recorded request with a non-empty response body, nothing is
\* observed while the body is live and no terminal poll happened, and the
\* one observation is made at the first terminal poll, with the outcome of
\* that poll, under the label set end_response returns for it.
C8_FirstTerminal ==
    \A r \in Reqs :
        (recorded[r] /\ HeadOk(r) /\ ~HeadEos(r))
        => /\ (term[r] = NoTerm /\ rb[r].phase = "live") => endLog[r] = <<>>
           /\ term[r] # NoTerm
                => /\ Len(endLog[r]) = 1
                   /\ endLog[r][1].at = term[r].at
                   /\ endLog[r][1].res = TermOutcome(term[r])
                   /\ endLog[r][1].lbl = LabelOf(r, TermOutcome(term[r]))
                   /\ InFamily(r, 1)

C8_Witness ==
    \E r \in Reqs :
        /\ recorded[r] /\ HeadOk(r) /\ ~HeadEos(r)
        /\ term[r].op = "data" /\ term[r].res[1] = "Err" /\ term[r].eos
        /\ "trailers" \in events[r]
        /\ Len(endLog[r]) = 1

\* C9: RequestCancelled is never the outcome for a response body the caller
\* read to completion (data exhausted, trailers read or an error yielded)
\* before dropping it.
C9_CancelledOnlyIfIncomplete ==
    \A r \in Reqs : \A i \in 1..Len(endLog[r]) :
        endLog[r][i].res = Cancelled
        => events[r] \cap {"none", "trailers", "err"} = {}

\* C10: in request-duration mode the observed elapsed value is the finalize
\* instant minus the instant of call, whatever happened to the request body.
C10_RequestDuration ==
    mode = "RequestDuration"
    => \A r \in Reqs : \A i \in 1..Len(endLog[r]) :
          /\ endLog[r][i].elapsed = endLog[r][i].at - arrivedAt[r]
          /\ InFamily(r, i)

C10_Witness ==
    /\ mode = "RequestDuration"
    /\ \E r \in Reqs :
          /\ Len(endLog[r]) = 1
          /\ arrivedAt[r] > 0
          /\ endLog[r][1].elapsed > 0
          /\ flushedAt[r] = NoVal

\* C11: in response-duration mode the observed elapsed value is the finalize
\* instant minus the instant the response head was received.
C11_FromHeaders ==
    mode = "ResponseDuration"
    => \A r \in Reqs : \A i \in 1..Len(endLog[r]) :
          headersAt[r] # NoVal => endLog[r][i].elapsed = endLog[r][i].at - headersAt[r]

\* C11 as amended: in response-duration mode the observed elapsed value is the
\* finalize instant minus the instant the request body was flushed, and zero
\* when the request body was not flushed by then.
C11_FromFlush ==
    mode = "ResponseDuration"
    => \A r \in Reqs : \A i \in 1..Len(endLog[r]) :
          endLog[r][i].elapsed =
              IF flushedAt[r] # NoVal /\ flushedAt[r] <= endLog[r][i].at
              THEN endLog[r][i].at - flushedAt[r]
              ELSE 0

C11_Witness ==
    /\ mode = "ResponseDuration"
    /\ \E r \in Reqs :
          /\ Len(endLog[r]) = 1
          /\ flushedAt[r] # NoVal /\ flushedAt[r] < headersAt[r]
          /\ headersAt[r] < endLog[r][1].at

C13_WrappedInRequestMode ==
    \A r \in Reqs :
        (mode = "RequestDuration" /\ recorded[r] /\ fut[r] # "idle")
        => /\ qb[r].wrapped
           /\ chan[r].val # NoVal => chan[r].val = flushedAt[r]

\* C13 as amended: a request recorded in response-duration mode has its
\* request body wrapped; the wrapper holds the sender exactly until the body
\* is flushed, and while the receiver lives the start signal carries the
\* instant of that flush.
C13_WrappedInResponseMode ==
    \A r \in Reqs :
        (mode = "ResponseDuration" /\ recorded[r] /\ fut[r] # "idle")
        => /\ qb[r].wrapped
           /\ qb[r].flushed <=> flushedAt[r] = NoVal
           /\ chan[r].val # NoVal => chan[r].val = flushedAt[r]
           /\ (chan[r].rx /\ flushedAt[r] # NoVal) => chan[r].val = flushedAt[r]

C13_Witness ==
    \E r \in Reqs :
        /\ mode = "ResponseDuration" /\ recorded[r]
        /\ qb[r].phase = "dropped" /\ qb[r].left > 0
        /\ chan[r].rx
        /\ chan[r].val > arrivedAt[r]

\* C14: a finalization that runs while the start signal holds no value makes
\* its one observation with elapsed exactly zero.
C14_ZeroWhenUnset ==
    [][\A r \in Reqs :
          (Len(endLog'[r]) = Len(endLog[r]) + 1 /\ chan[r].val = NoVal)
          => /\ Len(endLog'[r]) = 1
             /\ endLog'[r][1].elapsed = 0
             /\ family' = family (+) SetToBag({<<endLog'[r][1].lbl, 0>>})]_vars

C14_Witness ==
    \E r \in Reqs :
        /\ mode = "ResponseDuration"
        /\ Len(endLog[r]) = 1
        /\ flushedAt[r] = NoVal
        /\ endLog[r][1].at > arrivedAt[r]
        /\ endLog[r][1].elapsed = 0

\* C15: when the request body wrapper gives up its sender after the receiver
\* is gone, nothing else changes: the channel, the observations and the slot
\* stay as they were, and nothing panics or is altered for the inner service.
C15_LateWriteNoOp ==
    [][\A r \in Reqs :
          (qb[r].flushed /\ ~qb'[r].flushed /\ ~chan[r].rx)
          => /\ chan'[r] = chan[r]
             /\ endLog' = endLog
             /\ family' = family
             /\ state' = state
             /\ ~panicked'[r]
             /\ reqSame'[r]]_vars

C15_Witness ==
    \E r \in Reqs :
        /\ qb[r].wrapped /\ ~qb[r].flushed
        /\ Len(endLog[r]) = 1
        /\ flushedAt[r] > endLog[r][1].at
        /\ chan[r].val = NoVal

\* C25: the labeler callbacks of a recorded request are ordered.  When the
\* response head arrived init_response ran once, and an end_response that
\* ran was handed the labeler init_response had already seen; when the inner
\* future failed, end_response ran and init_response never did.
C25_InitBeforeEnd ==
    \A r \in Reqs :
        recorded[r]
        => /\ initLog[r] <= 1
           /\ HeadOk(r) => initLog[r] = 1
           /\ futIn[r][1] = "Err"
              => /\ initLog[r] = 0
                 /\ Len(endLog[r]) = 1
                 /\ endLog[r][1].lbl[1] = "new"
           /\ \A i \in 1..Len(endLog[r]) :
                 endLog[r][i].lbl[1] \in Statuses <=> initLog[r] = 1

\* a response whose body was read to its trailers after the head arrived
C25_Witness ==
    \E r \in Reqs :
        /\ recorded[r]
        /\ HeadOk(r) /\ ~HeadEos(r)
        /\ initLog[r] = 1
        /\ Len(endLog[r]) = 1
        /\ endLog[r][1].at > headersAt[r]
        /\ endLog[r][1].lbl[1] \in Statuses

\* C26: the sender held by a wrapped request body is used once.  It is given
\* up, with the send, at the first data poll completing at end-of-stream,
\* trailers poll completing, or drop; once given up no further value is
\* written; a dropped wrapper no longer holds it.
C26_SingleAssignment ==
    [][\A r \in Reqs :
          qb[r].wrapped
          => /\ (qb[r].flushed /\ ~qb'[r].flushed /\ chan[r].rx)
                => chan'[r].val = now
             /\ ~qb[r].flushed
                => /\ ~qb'[r].flushed
                   /\ chan'[r].val \in {chan[r].val, NoVal}
             /\ (qb[r].flushed /\ qb'[r] # qb[r])
                => (~qb'[r].flushed
                    <=> \/ qb'[r].phase = "dropped"
                        \/ qb'[r].eos
                        \/ RequestBody_poll_trailers(r))
             /\ qb'[r].phase = "dropped" => ~qb'[r].flushed]_vars

\* the wrapper was dropped before end-of-stream and its write is in the channel
C26_Witness ==
    \E r \in Reqs :
        /\ qb[r].wrapped
        /\ qb[r].phase = "dropped"
        /\ ~qb[r].eos
        /\ chan[r].val # NoVal
        /\ chan[r].val = flushedAt[r]

\* C28: in request-duration mode the send in call finds the receiver alive,
\* so call does not panic, and a finalization reads the instant of call from
\* the channel.
C28_StartAlwaysPresent ==
    [][mode = "RequestDuration"
       => \A r \in Reqs :
             /\ ~panicked'[r]
             /\ (fut[r] = "idle" /\ fut'[r] = "pending" /\ recorded'[r])
                => chan'[r].rx /\ chan'[r].val = now
             /\ Len(endLog'[r]) = Len(endLog[r]) + 1
                => /\ try_recv(chan[r]) = <<"Ok", arrivedAt[r]>>
                   /\ endLog'[r][Len(endLog'[r])].elapsed = now - arrivedAt[r]]_vars

\* a cancelled response finalized some time after the call
C28_Witness ==
    /\ mode = "RequestDuration"
    /\ \E r \in Reqs :
          /\ ~panicked[r]
          /\ Len(endLog[r]) = 1
          /\ endLog[r][1].res = Cancelled
          /\ endLog[r][1].elapsed = now - arrivedAt[r]
          /\ endLog[r][1].elapsed > 0

\* the observations the finalized requests of S account for
RECURSIVE LogBag(_)
LogBag(S) ==
    IF S = {}
    THEN EmptyBag
    ELSE LET r == CHOOSE x \in S : TRUE
         IN (IF endLog[r] = <<>>
             THEN EmptyBag
             ELSE SetToBag({<<endLog[r][1].lbl, endLog[r][1].elapsed>>}))
            (+) LogBag(S \ {r})

\* C27: with two requests in flight through one service, every finalization
\* carries the labeler of its own request (new, or the status its own
\* response head showed) and the time since its own call, and the shared
\* family holds exactly one observation per finalized request.
C27_Isolated ==
    /\ \A r \in Concurrent :
          /\ Len(endLog[r]) <= 1
          /\ ~recorded[r] => endLog[r] = <<>>
          /\ \A i \in 1..Len(endLog[r]) :
                /\ endLog[r][i].elapsed = endLog[r][i].at - arrivedAt[r]
                /\ endLog[r][i].lbl[1] = IF HeadOk(r) THEN StatusOf(r) ELSE "new"
    /\ family = LogBag(Concurrent)
    /\ BagCardinality(family) = Cardinality({r \in Concurrent : endLog[r] # <<>>})

\* r2 was called after r1 and finalized before it
C27_Witness ==
    /\ Len(endLog["r1"]) = 1
    /\ Len(endLog["r2"]) = 1
    /\ arrivedAt["r1"] < arrivedAt["r2"]
    /\ endLog["r2"][1].at < endLog["r1"][1].at
    /\ endLog["r1"][1].lbl[1] = "200"
    /\ endLog["r2"][1].lbl[1] = "503"
    /\ BagCardinality(family) = 2

\* ------------------------------------------------------- claims on routing
Routed == rt.phase = "done"
\* the flattened rule sequence of the table of the request's HTTP version
TableRules == flatten(rt.policy[rt.req.version])
HeaderOf == rt.req.headers[HEADER]
Unconditional(i) == TableRules[i].matches = <<>>
Satisfied(i) ==
    \E k \in DOMAIN TableRules[i].matches : match_request(TableRules[i].matches[k], rt.req)
Earliest(S) == IF S = {} THEN 0 ELSE CHOOSE i \in S : \A j \in S : i <= j
SatisfiedRules == {i \in DOMAIN TableRules : Satisfied(i)}
UnconditionalRules == {i \in DOMAIN TableRules : Unconditional(i)}

HelloBackend ==
    CASE HeaderOf \in {"sf", "san francisco"} -> "sf"
      [] HeaderOf = "austin" -> "austin"
      [] OTHER -> "world"

C19_TablesIndependent ==
    (/\ Routed
     /\ \A k \in DOMAIN rt.policy[rt.req.version] : rt.policy[rt.req.version][k].rules = <<>>
     /\ \E k \in DOMAIN rt.policy[Other(rt.req.version)] :
           \E i \in DOMAIN rt.policy[Other(rt.req.version)][k].rules :
              rt.policy[Other(rt.req.version)][k].rules[i].matches = <<>>)
    => /\ rt.err = NoRouteMatched
       /\ rt.status = "404"
       /\ rt.prev.version = Other(rt.req.version) => rt.prev.err = NoError

\* empty_http1_route, after a request of the other version went through
C19_Witness ==
    /\ Routed
    /\ rt.req.version = "Http1"
    /\ rt.policy = Detect(<<EmptyRoute>>, <<outbound_default_route>>)
    /\ rt.prev = [version |-> "Http2", err |-> NoError]
    /\ rt.err = NoRouteMatched

\* C20: when the request lacks the header, an Exact, a Regex and a Present
\* predicate on it are false, no rule is selected through a match-set, and
\* matching goes on to the remaining rules without raising an error.
C20_MissingHeaderIsFalse ==
    (Routed /\ HeaderOf = Absent)
    => /\ \A i \in DOMAIN TableRules : \A k \in DOMAIN TableRules[i].matches :
             \A n \in DOMAIN TableRules[i].matches[k].headers :
                ~header_matches(TableRules[i].matches[k].headers[n], rt.req)
       /\ rt.selected = Earliest(UnconditionalRules)
       /\ rt.err = IF UnconditionalRules = {} THEN NoRouteMatched ELSE NoError

\* rules with predicates of two kinds are passed over before the selected rule
C20_Witness ==
    /\ Routed
    /\ HeaderOf = Absent
    /\ rt.selected = Len(TableRules)
    /\ \E i, j \in 1..(rt.selected - 1) :
          /\ ~Unconditional(i) /\ ~Unconditional(j)
          /\ TableRules[i].matches[1].headers[1].kind = "Present"
          /\ TableRules[j].matches[1].headers[1].kind # "Present"

\* ------------------------------------------ claims on backend selection
\* C21: FirstAvailable returns the first backend in list order for which the
\* oracle held when it was queried ([A unavailable, B, C available] gives
\* B): never an unavailable backend, never a later one when an earlier one
\* was available, and NoBackendAvailable exactly when none was available.
C21_FirstAvailable ==
    dist.phase = "done"
    => /\ dist.selected # NoBackend
          => /\ dist.selected \in dist.queried
             /\ \E i \in DOMAIN dist.backends :
                   /\ dist.backends[i] = dist.selected
                   /\ \A j \in 1..(i - 1) : dist.backends[j] \notin dist.queried
       /\ dist.err = NoBackendAvailable
          <=> \A i \in DOMAIN dist.backends : dist.backends[i] \notin dist.queried
       /\ dist.err = NoBackendAvailable <=> dist.selected = NoBackend
       /\ (dist.backends = <<"A", "B", "C">> /\ dist.queried = {"B", "C"})
          => dist.selected = "B"

\* B was selected past the unavailable A, and A became available afterwards
C21_Witness ==
    /\ dist.phase = "done"
    /\ dist.backends = <<"A", "B", "C">>
    /\ dist.queried = {"B", "C"}
    /\ dist.selected = "B"
    /\ dist.available = {"A", "B", "C"}

\* ---------------------------------------------- claims on the detector
\* C22: a detection whose timeout elapses before a determination ends in
\* TimedOut with DetectionTimeout and nothing happens on the connection
\* afterwards, a route selection in particular; without a byte received no
\* version is ever determined, and a silent peer's detection ends in
\* TimedOut unless the connection is closed first.
C22_TimedOut ==
    /\ [](conn.state = "TimedOut"
          => /\ conn.err = DetectionTimeout
             /\ conn.elapsed = conn.timeout
             /\ conn.routed = "-")
    /\ [](conn.buf = "none" => conn.state \notin {"Http1", "Http2"} /\ conn.routed = "-")
    /\ [][conn.state = "TimedOut" => conn' = conn]_vars
    /\ ((conn.state = "Sniffing" /\ conn.peer = "silent")
        ~> (conn.state \in {"TimedOut", "Cancelled"}))

\* the timeout ran out on a peer that sent nothing
C22_Witness ==
    /\ conn.state = "TimedOut"
    /\ conn.peer = "silent"
    /\ conn.buf = "none"
    /\ conn.timeout > 0
    /\ conn.open

\* C23: a connection sees one detection attempt and at most one terminal
\* state, which it never leaves; a connection closed while sniffing is
\* cancelled, reaches no terminal state and is never handed to a matcher.
C23_OneAttempt ==
    /\ [](/\ conn.attempts = IF conn.state = "Start" THEN 0 ELSE 1
          /\ conn.ended = IF conn.state \in Terminal THEN <<conn.state>> ELSE <<>>
          /\ conn.routed # "-" => conn.routed = conn.state
          /\ ~conn.open => conn.state = "Cancelled" /\ conn.routed = "-")
    /\ [][/\ conn.state \in Terminal
             => /\ conn'.state = conn.state
                /\ conn'.ended = conn.ended
                /\ conn'.attempts = conn.attempts
          /\ conn.state = "Cancelled" => conn' = conn
          /\ conn.routed # "-" => conn' = conn]_vars

\* the closure came when the buffered bytes already showed HTTP/2
C23_Witness ==
    /\ conn.state = "Cancelled"
    /\ conn.buf = "h2"
    /\ conn.attempts = 1
    /\ conn.routed = "-"

\* ------------------------------------------- claims on the policy watch
\* C24: however publications and reads interleave, the slot holds the policy
\* published last, a routing decision is handed that policy, not an older
\* one, and a routing decision can always be taken at once, whether or not
\* its task awaits a change.
C24_LatestSnapshot ==
    /\ watch.value = watch.last
    /\ \A q \in Readers :
          /\ watch.readers[q].got = watch.readers[q].latest
          /\ (watch.readers[q].got # NoSnapshot /\ watch.readers[q].at = watch.version)
             => watch.readers[q].got = watch.last
          /\ ENABLED route_decision(q)

\* two policies were published since the reader last marked one seen, its
\* task is still awaiting a change, and its routing decision has the second
C24_Witness ==
    \E q \in Readers :
        /\ watch.version >= 2
        /\ watch.readers[q].seen = 0
        /\ watch.readers[q].waiting
        /\ watch.readers[q].at = watch.version
        /\ watch.readers[q].got = watch.last
        /\ \E o \in Readers : watch.readers[o].got \notin {NoSnapshot, watch.last}

\* ------------------------------------------------ claims on the main task
\* C29: once the app is spawned, a shutdown signal or an admin shutdown
\* request leads to draining and then to the exit of the main task: it
\* returns as soon as the drain is complete, and when the grace period has
\* elapsed although the drain is not, so it returns either way.
C29_ShutdownTerminates ==
    /\ [](app.pc = "draining" => app.draining /\ app.via \in {"signal", "admin"})
    /\ [](app.pc = "exited"
          => /\ app.draining
             /\ app.outcome = "graceful" => app.handles = 0
             /\ app.outcome = "terminated" => app.handles > 0 /\ app.elapsed = app.grace)
    /\ [][(app.pc = "select" /\ app'.pc # "select")
          => /\ app'.pc = "draining"
             /\ app.signal \/ app.queued > 0 \/ ~app.tx]_vars
    /\ ((app.pc = "select" /\ (app.signal \/ app.queued > 0)) ~> app.draining)
    /\ (app.draining ~> app.pc = "exited")

\* the grace period ran out on a drain that did not complete
C29_Witness ==
    /\ app.pc = "exited"
    /\ app.outcome = "terminated"
    /\ app.via = "admin"
    /\ app.grace > 0
    /\ app.handles > 0

====
